---- MODULE Spec2Model ----
(***************************************************************************)
(* Model of cynthion/python/src/gateware/soc/top.py: the MoondancerSoc     *)
(* descriptor (__init__), its resource binding (elaborate) and the main    *)
(* build script.  Calls into luna, luna_soc and amaranth are the           *)
(* environment: each either returns or raises.                             *)
(***************************************************************************)
EXTENDS Integers, Sequences, FiniteSets, TLC

VARIABLES
    pc,          \* position of the main script / of elaborate
    detected,    \* whether get_appropriate_platform() finds a platform
    resources,   \* the platform's resource table (names it can hand out)
    connectors,  \* the pins of connector ("pmod", 1) the platform has
    peripherals, \* the soc's peripheral registry, in registration order
    dirs,        \* directories that exist under build/
    files,       \* content of the four artifact files
    art,         \* index of the artifact being generated
    requested,   \* resources handed out by platform.request, in order
    bus,         \* PHY each USBDevice was constructed with
    ext_reset,   \* whether cpu.ext_reset is driven by the user button
    exitStatus,  \* status passed to sys.exit, or -1
    trace        \* every externally visible call, in order

vars == <<pc, detected, resources, connectors, peripherals, dirs, files, art,
          requested, bus, ext_reset, exitStatus, trace>>

----------------------------------------------------------------------------
(* Addresses are 32 bits wide; they are kept as two 16-bit halves.         *)

Addr(hi, lo) == [hi |-> hi, lo |-> lo]

Auto == [hi |-> -1, lo |-> -1]

\* a mod g for a = hi * 2^16 + lo
AddrMod(a, g) == (((a.hi % g) * (65536 % g)) + a.lo) % g

LEDS_BASE_LO == 4096

GPIOA_BASE_LO == 8192

GPIOB_BASE_LO == 8448

USB0_BASE_LO == 12288

USB1_BASE_LO == 16384

USB2_BASE_LO == 20480

CSR_BASE_HI == 61440

Entry(n, a, sub) == [name |-> n, addr |-> a, as_submodule |-> sub]

PeripheralList_M ==
    << Entry("leds",  Addr(CSR_BASE_HI, LEDS_BASE_LO),  TRUE),
       Entry("gpioa", Addr(CSR_BASE_HI, GPIOA_BASE_LO), TRUE),
       Entry("gpiob", Addr(CSR_BASE_HI, GPIOA_BASE_LO + 128), TRUE),
       Entry("usb0",  Addr(CSR_BASE_HI, USB0_BASE_LO),  TRUE),
       Entry("usb0_ep_control", Auto, FALSE),
       Entry("usb0_ep_in",      Auto, FALSE),
       Entry("usb0_ep_out",     Auto, FALSE),
       Entry("usb1",  Addr(CSR_BASE_HI, USB1_BASE_LO),  TRUE),
       Entry("usb1_ep_control", Auto, FALSE),
       Entry("usb1_ep_in",      Auto, FALSE),
       Entry("usb1_ep_out",     Auto, FALSE),
       Entry("usb2",  Addr(CSR_BASE_HI, USB2_BASE_LO),  TRUE),
       Entry("usb2_ep_control", Auto, FALSE),
       Entry("usb2_ep_in",      Auto, FALSE),
       Entry("usb2_ep_out",     Auto, FALSE) >>

\* the add_peripheral calls of MoondancerSoc.__init__, in order
PeripheralList ==
    << Entry("leds",  Addr(CSR_BASE_HI, LEDS_BASE_LO),  TRUE),
       Entry("gpioa", Addr(CSR_BASE_HI, GPIOA_BASE_LO), TRUE),
       Entry("gpiob", Addr(CSR_BASE_HI, GPIOB_BASE_LO), TRUE),
       Entry("usb0",  Addr(CSR_BASE_HI, USB0_BASE_LO),  TRUE),
       Entry("usb0_ep_control", Auto, FALSE),
       Entry("usb0_ep_in",      Auto, FALSE),
       Entry("usb0_ep_out",     Auto, FALSE),
       Entry("usb1",  Addr(CSR_BASE_HI, USB1_BASE_LO),  TRUE),
       Entry("usb1_ep_control", Auto, FALSE),
       Entry("usb1_ep_in",      Auto, FALSE),
       Entry("usb1_ep_out",     Auto, FALSE),
       Entry("usb2",  Addr(CSR_BASE_HI, USB2_BASE_LO),  TRUE),
       Entry("usb2_ep_control", Auto, FALSE),
       Entry("usb2_ep_in",      Auto, FALSE),
       Entry("usb2_ep_out",     Auto, FALSE) >>

----------------------------------------------------------------------------
(* Platform resources.                                                     *)

\* names a platform variant may or may not define
PlatformResources ==
    {"button_user", "user_pmod_0", "target_phy",
     "aux_phy", "host_phy", "control_phy", "sideband_phy"}

\* ADDITIONAL_RESOURCES: uart 1 and jtag 0, both on connector ("pmod", 1)
ADDITIONAL_RESOURCES == {"uart_1", "jtag_0"}

\* the pins of connector ("pmod", 1) a resource is wired to
PinsOf(name) ==
    CASE name = "uart_1" -> {1, 2}
      [] name = "jtag_0" -> {7, 8, 9, 10}
      [] OTHER -> {}

\* connector ("pmod", 1) of a platform variant: absent, six pins, twelve pins
PmodVariants == {{}, 1..6, 1..12}

\* platform.request(name) returns iff the platform has the resource and the
\* connector pins it names
CanRequest(name) ==
    /\ name \in resources
    /\ PinsOf(name) \subseteq connectors

USB0_PHYS == <<"target_phy">>

USB1_PHYS_M == <<"aux_phy">>

\* try: request("aux_phy")  except: request("host_phy")
USB1_PHYS == <<"aux_phy", "host_phy">>

USB2_PHYS_M == <<"control_phy", "host_phy">>

\* try: request("control_phy")  except: request("sideband_phy")
USB2_PHYS == <<"control_phy", "sideband_phy">>

RECURSIVE Acquire_M(_)
Acquire_M(names) ==
    IF names = <<>> THEN [attempts |-> <<>>, bound |-> "none"]
    ELSE LET n == names[Len(names)] IN
         IF CanRequest(n) THEN [attempts |-> <<n>>, bound |-> n]
         ELSE LET r == Acquire_M(SubSeq(names, 1, Len(names) - 1)) IN
              [attempts |-> <<n>> \o r.attempts, bound |-> r.bound]

\* request names[1]; on any exception request the next name, and so on.
\* bound = "none" when the last request raised too.
RECURSIVE Acquire(_)
Acquire(names) ==
    IF names = <<>> THEN [attempts |-> <<>>, bound |-> "none"]
    ELSE IF CanRequest(Head(names)) THEN
         [attempts |-> <<Head(names)>>, bound |-> Head(names)]
    ELSE LET r == Acquire(Tail(names)) IN
         [attempts |-> <<Head(names)>> \o r.attempts, bound |-> r.bound]

RequestEvents(names) == [i \in 1..Len(names) |-> <<"request", names[i]>>]

----------------------------------------------------------------------------
(* Artifacts of the generation phase, in program order.                    *)

Art(f, d, g) == [file |-> f, dir |-> d, gen |-> g]

Artifacts_M ==
    << Art("soc.ld",      "genc",    "ld_script"),
       Art("resources.h", "genc",    "c_header"),
       Art("lunasoc.svd", "gensvd",  "svd"),
       Art("memory.x",    "genrust", "memory_x") >>

Artifacts ==
    << Art("resources.h", "genc",    "c_header"),
       Art("soc.ld",      "genc",    "ld_script"),
       Art("lunasoc.svd", "gensvd",  "svd"),
       Art("memory.x",    "genrust", "memory_x") >>

FileNames == {"resources.h", "soc.ld", "lunasoc.svd", "memory.x"}

DirOf(f) == IF f \in {"resources.h", "soc.ld"} THEN "genc"
            ELSE IF f = "lunasoc.svd" THEN "gensvd" ELSE "genrust"

THIRDPARTY == "lambdasoc.soc.cpu/bios/3rdparty/litex"

Dirs == {THIRDPARTY, "genc", "gensvd", "genrust"}

EXIT_FAILURE == 1

Raise(step) == /\ pc' = "failed"
               /\ trace' = Append(trace, <<"raise", step>>)

----------------------------------------------------------------------------

Init ==
    /\ pc = "select"
    /\ detected \in BOOLEAN
    /\ resources \in SUBSET PlatformResources
    /\ connectors \in PmodVariants
    /\ (~detected) => (resources = {} /\ connectors = {})
    /\ peripherals = <<>>
    /\ dirs \in SUBSET Dirs
    /\ \E stale \in BOOLEAN :
          files = [f \in FileNames |->
                     IF stale /\ DirOf(f) \in dirs THEN "stale" ELSE "absent"]
    /\ art = 1
    /\ requested = <<>>
    /\ bus = [d \in {"usb0", "usb1", "usb2"} |-> "none"]
    /\ ext_reset = FALSE
    /\ exitStatus = -1
    /\ trace = <<>>

----------------------------------------------------------------------------
(* The main script, up to the build of the design.                         *)

SelectPlatform_M ==
    /\ pc = "select"
    /\ IF detected
       THEN /\ trace' = Append(trace, <<"select", "platform">>)
            /\ pc' = "init"
            /\ UNCHANGED exitStatus
       ELSE /\ trace' = Append(trace, <<"error", "no platform">>)
            /\ pc' = "init"
            /\ UNCHANGED exitStatus
    /\ UNCHANGED <<detected, resources, connectors, peripherals, dirs, files,
                   art, requested, bus, ext_reset>>

\* platform = get_appropriate_platform(); None: logging.error and sys.exit(1)
SelectPlatform ==
    /\ pc = "select"
    /\ IF detected
       THEN /\ trace' = Append(trace, <<"select", "platform">>)
            /\ pc' = "init"
            /\ UNCHANGED exitStatus
       ELSE /\ trace' = Append(trace, <<"error", "no platform">>)
            /\ pc' = "exited"
            /\ exitStatus' = EXIT_FAILURE
    /\ UNCHANGED <<detected, resources, connectors, peripherals, dirs, files,
                   art, requested, bus, ext_reset>>

\* MoondancerSoc.__init__: one add_peripheral call
AddPeripheral ==
    /\ pc = "init"
    /\ LET i == Len(peripherals) + 1 IN
       /\ peripherals' = Append(peripherals, PeripheralList[i])
       /\ trace' = Append(trace, <<"add_peripheral", PeripheralList[i].name>>)
       /\ pc' = IF i = Len(PeripheralList) THEN "fixdir" ELSE "init"
    /\ UNCHANGED <<detected, resources, connectors, dirs, files, art,
                   requested, bus, ext_reset, exitStatus>>

\* if not os.path.exists(thirdparty): os.makedirs(thirdparty)
FixBuildDir ==
    /\ pc = "fixdir"
    /\ \/ /\ THIRDPARTY \in dirs
          /\ pc' = "bios"
          /\ UNCHANGED <<dirs, trace>>
       \/ /\ THIRDPARTY \notin dirs
          /\ dirs' = dirs \cup {THIRDPARTY}
          /\ trace' = Append(trace, <<"makedirs", THIRDPARTY>>)
          /\ pc' = "bios"
       \/ /\ THIRDPARTY \notin dirs
          /\ Raise("makedirs")
          /\ UNCHANGED dirs
    /\ UNCHANGED <<detected, resources, connectors, peripherals, files, art,
                   requested, bus, ext_reset, exitStatus>>

\* design.soc.build(name="soc", build_dir=build_dir, do_init=True)
BuildBios ==
    /\ pc = "bios"
    /\ \/ /\ trace' = Append(trace, <<"bios", "ok">>)
          /\ pc' = "elab_begin"
       \/ Raise("bios")
    /\ UNCHANGED <<detected, resources, connectors, peripherals, dirs, files,
                   art, requested, bus, ext_reset, exitStatus>>

----------------------------------------------------------------------------
(* elaborate, called by platform.build.                                    *)

\* platform.add_resources(ADDITIONAL_RESOURCES), clock domains, the soc
ElabBegin ==
    /\ pc = "elab_begin"
    /\ resources' = resources \cup ADDITIONAL_RESOURCES
    /\ trace' = Append(trace, <<"add_resources", "uart_1,jtag_0">>)
    /\ pc' = "elab_button"
    /\ UNCHANGED <<detected, connectors, peripherals, dirs, files, art,
                   requested, bus, ext_reset, exitStatus>>

ElabButton_M ==
    /\ pc = "elab_button"
    /\ LET r == Acquire(<<"button_user">>) IN
       IF r.bound # "none"
       THEN /\ requested' = Append(requested, r.bound)
            /\ ext_reset' = TRUE
            /\ trace' = trace \o RequestEvents(r.attempts)
            /\ pc' = "elab_pmod"
       ELSE /\ trace' = trace \o RequestEvents(r.attempts)
                          \o << <<"raise", "button_user">> >>
            /\ pc' = "failed"
            /\ UNCHANGED <<requested, ext_reset>>
    /\ UNCHANGED <<detected, resources, connectors, peripherals, dirs, files,
                   art, bus, exitStatus>>

\* try: request("button_user"), drive ext_reset  except: logging.warn
ElabButton ==
    /\ pc = "elab_button"
    /\ LET r == Acquire(<<"button_user">>) IN
       IF r.bound # "none"
       THEN /\ requested' = Append(requested, r.bound)
            /\ ext_reset' = TRUE
            /\ trace' = trace \o RequestEvents(r.attempts)
       ELSE /\ trace' = trace \o RequestEvents(r.attempts)
                          \o << <<"warn", "button_user">> >>
            /\ UNCHANGED <<requested, ext_reset>>
    /\ pc' = "elab_pmod"
    /\ UNCHANGED <<detected, resources, connectors, peripherals, dirs, files,
                   art, bus, exitStatus>>

\* a mandatory request: the exception leaves elaborate and ends the script
Mandatory(here, name, next) ==
    /\ pc = here
    /\ LET r == Acquire(<<name>>) IN
       IF r.bound # "none"
       THEN /\ requested' = Append(requested, r.bound)
            /\ trace' = trace \o RequestEvents(r.attempts)
            /\ pc' = next
       ELSE /\ trace' = trace \o RequestEvents(r.attempts)
                          \o << <<"raise", name>> >>
            /\ pc' = "failed"
            /\ UNCHANGED requested
    /\ UNCHANGED <<detected, resources, connectors, peripherals, dirs, files,
                   art, bus, ext_reset, exitStatus>>

\* pmoda_io = platform.request("user_pmod", 0)
ElabPmod == Mandatory("elab_pmod", "user_pmod_0", "elab_uart")

\* uart1_io = platform.request("uart", 1)
ElabUart == Mandatory("elab_uart", "uart_1", "elab_jtag")

\* jtag0_io = platform.request("jtag", 0)
ElabJtag == Mandatory("elab_jtag", "jtag_0", "elab_usb0")

\* ulpi = request(first) [except: request(alternate)]; USBDevice(bus=ulpi)
AttachUsb(here, dev, names, next) ==
    /\ pc = here
    /\ LET r == Acquire(names) IN
       IF r.bound # "none"
       THEN /\ requested' = Append(requested, r.bound)
            /\ bus' = [bus EXCEPT ![dev] = r.bound]
            /\ trace' = trace \o RequestEvents(r.attempts)
            /\ pc' = next
       ELSE /\ trace' = trace \o RequestEvents(r.attempts)
                          \o << <<"raise", names[Len(names)]>> >>
            /\ pc' = "failed"
            /\ UNCHANGED <<requested, bus>>
    /\ UNCHANGED <<detected, resources, connectors, peripherals, dirs, files,
                   art, ext_reset, exitStatus>>

ElabUsb0 == AttachUsb("elab_usb0", "usb0", USB0_PHYS, "elab_usb1")

ElabUsb1 == AttachUsb("elab_usb1", "usb1", USB1_PHYS, "elab_usb2")

\* the last device; return m, and platform.build goes on to the toolchain
ElabUsb2 == AttachUsb("elab_usb2", "usb2", USB2_PHYS, "synth")

----------------------------------------------------------------------------
(* The rest of the main script.                                            *)

\* the toolchain run of platform.build(design, do_program=False, ...)
Synthesize ==
    /\ pc = "synth"
    /\ \/ /\ trace' = Append(trace, <<"synth", "ok">>)
          /\ pc' = "introspect"
       \/ Raise("synth")
    /\ UNCHANGED <<detected, resources, connectors, peripherals, dirs, files,
                   art, requested, bus, ext_reset, exitStatus>>

\* Introspect(design.soc).log_resources(); generate = Generate(design.soc)
LogResources ==
    /\ pc = "introspect"
    /\ \/ /\ trace' = Append(trace, <<"introspect", "ok">>)
          /\ pc' = "mkdir"
       \/ Raise("introspect")
    /\ UNCHANGED <<detected, resources, connectors, peripherals, dirs, files,
                   art, requested, bus, ext_reset, exitStatus>>

\* if not os.path.exists(path): os.makedirs(path)
MakeArtifactDir ==
    /\ pc = "mkdir"
    /\ LET d == Artifacts[art].dir IN
       \/ /\ d \in dirs
          /\ pc' = "open"
          /\ UNCHANGED <<dirs, trace>>
       \/ /\ d \notin dirs
          /\ dirs' = dirs \cup {d}
          /\ trace' = Append(trace, <<"makedirs", d>>)
          /\ pc' = "open"
       \/ /\ d \notin dirs
          /\ Raise("makedirs")
          /\ UNCHANGED dirs
    /\ UNCHANGED <<detected, resources, connectors, peripherals, files, art,
                   requested, bus, ext_reset, exitStatus>>

\* open(os.path.join(path, name), "w"): the file is created or truncated
OpenArtifact ==
    /\ pc = "open"
    /\ LET f == Artifacts[art].file IN
       \/ /\ files' = [files EXCEPT ![f] = "empty"]
          /\ trace' = Append(trace, <<"open", f>>)
          /\ pc' = "emit"
       \/ /\ Raise("open")
          /\ UNCHANGED files
    /\ UNCHANGED <<detected, resources, connectors, peripherals, dirs, art,
                   requested, bus, ext_reset, exitStatus>>

AfterEmit(k) ==
    IF k = Len(Artifacts) THEN "print"
    ELSE IF Artifacts[k + 1].dir = Artifacts[k].dir THEN "open" ELSE "mkdir"

EmitArtifact_M ==
    /\ pc = "emit"
    /\ LET f == Artifacts[art].file IN
       \/ /\ files' = [files EXCEPT ![f] = Artifacts[art].gen]
          /\ trace' = Append(trace, <<"emit", f>>)
          /\ pc' = AfterEmit(art)
          /\ art' = IF art = Len(Artifacts) THEN art ELSE art + 1
       \/ /\ \E left \in {"empty", "partial"} :
                files' = [files EXCEPT ![f] = left]
          /\ trace' = Append(trace, <<"raise", "emit">>)
          /\ pc' = AfterEmit(art)
          /\ art' = IF art = Len(Artifacts) THEN art ELSE art + 1
    /\ UNCHANGED <<detected, resources, connectors, peripherals, dirs,
                   requested, bus, ext_reset, exitStatus>>

\* generate.<kind>(file=f) inside the with block; the file is closed after
EmitArtifact ==
    /\ pc = "emit"
    /\ LET f == Artifacts[art].file IN
       \/ /\ files' = [files EXCEPT ![f] = Artifacts[art].gen]
          /\ trace' = Append(trace, <<"emit", f>>)
          /\ pc' = AfterEmit(art)
          /\ art' = IF art = Len(Artifacts) THEN art ELSE art + 1
       \/ /\ \E left \in {"empty", "partial"} :
                files' = [files EXCEPT ![f] = left]
          /\ Raise("emit")
          /\ UNCHANGED art
    /\ UNCHANGED <<detected, resources, connectors, peripherals, dirs,
                   requested, bus, ext_reset, exitStatus>>

\* print("Build completed. ...")
PrintCompleted ==
    /\ pc = "print"
    /\ trace' = Append(trace, <<"print", "Build completed">>)
    /\ pc' = "done"
    /\ UNCHANGED <<detected, resources, connectors, peripherals, dirs, files,
                   art, requested, bus, ext_reset, exitStatus>>

Next ==
    \/ SelectPlatform
    \/ AddPeripheral
    \/ FixBuildDir
    \/ BuildBios
    \/ ElabBegin
    \/ ElabButton
    \/ ElabPmod
    \/ ElabUart
    \/ ElabJtag
    \/ ElabUsb0
    \/ ElabUsb1
    \/ ElabUsb2
    \/ Synthesize
    \/ LogResources
    \/ MakeArtifactDir
    \/ OpenArtifact
    \/ EmitArtifact
    \/ PrintCompleted

Spec == Init /\ [][Next]_vars

----------------------------------------------------------------------------
(* Vocabulary of the properties.                                           *)

Occurs(e) == \E i \in 1..Len(trace) : trace[i] = e

Tried(name) == Occurs(<<"request", name>>)

Handed(name) == \E i \in 1..Len(requested) : requested[i] = name

LastEvent == IF trace = <<>> THEN <<"none", "none">> ELSE trace[Len(trace)]

\* elaborate ran to its return statement
ElabReturned == bus["usb2"] # "none"

Terminal == {"done", "failed", "exited"}

Untouched(f) == files[f] \in {"absent", "stale"}

IsOpen(e) == e[1] = "open"

IsEmit(e) == e[1] = "emit"

\* the phase an event belongs to: descriptor and preparation 1, resource
\* binding 2, synthesis 3, introspection 4, artifact generation 5
Rank(e) ==
    CASE e[1] \in {"select", "error"} -> 0
      [] e[1] = "add_peripheral" -> 1
      [] e[1] = "bios" -> 1
      [] e[1] = "makedirs" /\ e[2] = THIRDPARTY -> 1
      [] e[1] \in {"add_resources", "request", "warn"} -> 2
      [] e[1] = "synth" -> 3
      [] e[1] = "introspect" -> 4
      [] e[1] = "makedirs" /\ e[2] # THIRDPARTY -> 5
      [] e[1] \in {"open", "emit"} -> 5
      [] e[1] = "print" -> 6
      [] OTHER -> 7

----------------------------------------------------------------------------
(* C2: a binding with a fallback list binds the first name when it is      *)
(* available and then never requests the second, binds the second when     *)
(* only the second is available, and when neither is available the         *)
(* failure leaves elaborate and ends the run; for (aux_phy, host_phy) on   *)
(* usb1 and (control_phy, sideband_phy) on usb2, on every platform variant.*)
FirstAvailable(dev, first, second) ==
    Tried(first) =>
       /\ (first \in resources) =>
             /\ bus[dev] = first
             /\ Handed(first)
             /\ ~Tried(second)
       /\ (first \notin resources /\ second \in resources) =>
             /\ bus[dev] = second
             /\ Handed(second)
             /\ Tried(second)
       /\ (first \notin resources /\ second \notin resources) =>
             /\ bus[dev] = "none"
             /\ Tried(second)
             /\ pc = "failed"
             /\ LastEvent = <<"raise", second>>
             /\ ~ElabReturned

C2_FallbackOrder ==
    /\ FirstAvailable("usb1", "aux_phy", "host_phy")
    /\ FirstAvailable("usb2", "control_phy", "sideband_phy")

C2_Witness ==
    /\ bus["usb1"] = "aux_phy"
    /\ "host_phy" \in resources
    /\ bus["usb2"] = "sideband_phy"
    /\ pc = "synth"

----------------------------------------------------------------------------
(* C3: a failing request for button_user is logged as a warning and        *)
(* elaborate goes on with every later binding and returns; a platform      *)
(* without target_phy, user_pmod 0, uart 1 or jtag 0 ends elaborate with   *)
(* the failure, and the run reaches neither an artifact nor the message.   *)
Missing(name) ==
    \/ name \notin resources \cup ADDITIONAL_RESOURCES
    \/ ~(PinsOf(name) \subseteq connectors)

MandatoryNames == {"user_pmod_0", "uart_1", "jtag_0", "target_phy"}

C3_OptionalVsMandatory ==
    /\ ~Occurs(<<"raise", "button_user">>)
    /\ (Tried("button_user") /\ "button_user" \notin resources) =>
          /\ Occurs(<<"warn", "button_user">>)
          /\ ~ext_reset
          /\ ~Handed("button_user")
          /\ pc # "elab_button"
          /\ (pc = "failed" => LastEvent # <<"warn", "button_user">>)
    /\ (ElabReturned /\ "button_user" \notin resources) =>
          /\ Occurs(<<"warn", "button_user">>)
          /\ \A m \in MandatoryNames : Handed(m)
          /\ \A d \in {"usb0", "usb1", "usb2"} : bus[d] # "none"
    /\ \A m \in MandatoryNames :
          Missing(m) =>
             /\ ~ElabReturned
             /\ \A f \in FileNames : Untouched(f)
             /\ \A i \in 1..Len(trace) : trace[i][1] \notin {"open", "emit", "print"}
             /\ pc # "done"
             /\ (Tried(m) => pc = "failed" /\ LastEvent = <<"raise", m>>)

C3_Witness ==
    /\ "button_user" \notin resources
    /\ Occurs(<<"warn", "button_user">>)
    /\ pc = "done"

----------------------------------------------------------------------------
(* C4: without a platform the script logs an error and exits with a        *)
(* non-zero status, having done nothing else; with a platform it never     *)
(* exits that way, a run in which no step raises goes on to the end, and   *)
(* the completion message is the last thing a completed run does.          *)
C4_PlatformExit ==
    /\ (~detected) =>
          /\ pc \in {"select", "exited"}
          /\ (pc = "exited") =>
                /\ exitStatus # 0
                /\ exitStatus = EXIT_FAILURE
                /\ trace = << <<"error", "no platform">> >>
                /\ peripherals = <<>>
                /\ requested = <<>>
                /\ \A f \in FileNames : Untouched(f)
    /\ detected =>
          /\ pc # "exited"
          /\ exitStatus = -1
          /\ ~Occurs(<<"error", "no platform">>)
    /\ (pc \notin Terminal) => ENABLED Next
    /\ (pc = "failed") <=> (LastEvent[1] = "raise")
    /\ (pc = "done") =>
          /\ LastEvent = <<"print", "Build completed">>
          /\ ~ENABLED Next

C4_Witness ==
    /\ ~detected
    /\ pc = "exited"
    /\ exitStatus = 1

----------------------------------------------------------------------------
(* C5: the phases of a run come in the order descriptor, resource binding, *)
(* synthesis, introspection, artifact generation; no artifact file is      *)
(* opened before the synthesis has returned; a completed run has opened    *)
(* and generated resources.h, soc.ld, lunasoc.svd, memory.x once each, in  *)
(* that order.                                                             *)
C5_PhaseOrder ==
    /\ \A i \in 1..(Len(trace) - 1) : Rank(trace[i]) <= Rank(trace[i + 1])
    /\ \A i \in 1..Len(trace) :
          IsOpen(trace[i]) =>
             /\ \E j \in 1..(i - 1) : trace[j] = <<"synth", "ok">>
             /\ \E j \in 1..(i - 1) : trace[j] = <<"introspect", "ok">>
             /\ \E j \in 1..(i - 1) : trace[j][1] = "request"
    /\ Occurs(<<"synth", "ok">>) => Len(peripherals) = 15 /\ ElabReturned
    /\ (pc = "done") =>
          /\ SelectSeq(trace, IsOpen) =
                << <<"open", "resources.h">>, <<"open", "soc.ld">>,
                   <<"open", "lunasoc.svd">>, <<"open", "memory.x">> >>
          /\ SelectSeq(trace, IsEmit) =
                << <<"emit", "resources.h">>, <<"emit", "soc.ld">>,
                   <<"emit", "lunasoc.svd">>, <<"emit", "memory.x">> >>
          /\ files = [f \in FileNames |->
                        CASE f = "resources.h" -> "c_header"
                          [] f = "soc.ld" -> "ld_script"
                          [] f = "lunasoc.svd" -> "svd"
                          [] OTHER -> "memory_x"]

C5_Witness ==
    /\ pc = "done"
    /\ Occurs(<<"emit", "memory.x">>)

----------------------------------------------------------------------------
(* C7: on a platform with host_phy and without aux_phy, once elaborate has *)
(* asked for aux_phy the usb1 device is built on host_phy, and host_phy,   *)
(* not aux_phy, is the resource recorded as handed out.                    *)
C7_AuxFallsBackToHost ==
    ("aux_phy" \notin resources /\ "host_phy" \in resources /\ Tried("aux_phy")) =>
       /\ bus["usb1"] = "host_phy"
       /\ Handed("host_phy")
       /\ ~Handed("aux_phy")
       /\ pc # "failed" \/ LastEvent # <<"raise", "host_phy">>

C7_Witness ==
    /\ "aux_phy" \notin resources
    /\ "host_phy" \in resources
    /\ bus["usb1"] = "host_phy"
    /\ ElabReturned

----------------------------------------------------------------------------
(* C8: every base address given explicitly to add_peripheral is a multiple *)
(* of 0x1000, except gpiob, whose base is a multiple of 0x100.             *)
C8_Aligned ==
    \A i \in 1..Len(peripherals) :
       LET p == peripherals[i] IN
       /\ (p.addr # Auto) <=>
             p.name \in {"leds", "gpioa", "gpiob", "usb0", "usb1", "usb2"}
       /\ (p.addr # Auto /\ p.name # "gpiob") => AddrMod(p.addr, 4096) = 0
       /\ (p.name = "gpiob") =>
             /\ AddrMod(p.addr, 256) = 0
             /\ AddrMod(p.addr, 4096) # 0

C8_Witness ==
    /\ Len(peripherals) = 15
    /\ peripherals[3].name = "gpiob"
    /\ peripherals[12].addr = Addr(61440, 20480)

----------------------------------------------------------------------------
(* C9: a step that raises ends the run: nothing is attempted after it, the *)
(* artifacts completed before it keep their content, the file whose        *)
(* emission raised is left incomplete, no later artifact is touched and    *)
(* the completion message is not printed.                                  *)
C9_NoRetryNoRecovery ==
    /\ \A i \in 1..Len(trace) :
          trace[i][1] = "raise" => (i = Len(trace) /\ pc = "failed")
    /\ (pc = "failed") =>
          /\ ~ENABLED Next
          /\ ~Occurs(<<"print", "Build completed">>)
          /\ \A k \in 1..4 :
                /\ (k < art) => files[Artifacts[k].file] = Artifacts[k].gen
                /\ (k > art) => Untouched(Artifacts[k].file)
          /\ (LastEvent = <<"raise", "emit">>) =>
                /\ files[Artifacts[art].file] \in {"empty", "partial"}
                /\ Occurs(<<"open", Artifacts[art].file>>)
                /\ ~Occurs(<<"emit", Artifacts[art].file>>)
          /\ (LastEvent # <<"raise", "emit">>) => Untouched(Artifacts[art].file)

C9_Witness ==
    /\ pc = "failed"
    /\ LastEvent = <<"raise", "emit">>
    /\ art = 3
    /\ files["resources.h"] = "c_header"
    /\ files["soc.ld"] = "ld_script"
    /\ files["lunasoc.svd"] = "partial"
    /\ files["memory.x"] = "stale"

----------------------------------------------------------------------------
(* C10: whenever elaborate returns, usb0, usb1 and usb2 sit on three       *)
(* different PHY resources, and no resource is handed out twice during     *)
(* one elaborate; a fallback never binds a PHY another controller has.     *)
C10_DistinctPhys ==
    /\ \A i, j \in 1..Len(requested) : (i # j) => requested[i] # requested[j]
    /\ \A d, e \in {"usb0", "usb1", "usb2"} :
          (d # e /\ bus[d] # "none") => bus[d] # bus[e]
    /\ ElabReturned =>
          /\ bus["usb0"] = "target_phy"
          /\ bus["usb1"] \in {"aux_phy", "host_phy"}
          /\ bus["usb2"] \in {"control_phy", "sideband_phy"}
          /\ \A d \in {"usb0", "usb1", "usb2"} : Handed(bus[d])

C10_Witness ==
    /\ ElabReturned
    /\ bus["usb1"] = "host_phy"
    /\ bus["usb2"] = "sideband_phy"
    /\ "control_phy" \notin resources

====
